---- MODULE Spec2Model ----
(***************************************************************************)
(* The transaction-listing page of sao-ke in its three variants:           *)
(*   "page"      src/app/page.tsx      search + sort + fixed page size     *)
(*   "part_001"  src/unnamed/part_001  adds page-size and go-to-page input *)
(*   "debounced" src/unnamed/part_000  debounced search that re-fetches    *)
(*                                                                         *)
(* A record list holds references to the records of the fetched document  *)
(* (their positions in it); the four fields are read through Record.      *)
(* Strings are sequences of UTF-16 code units (naturals):                  *)
(*   ','=44 '-'=45 '.'=46 '0'..'9'=48..57 'A'..'Z'=65..90 'a'..'z'=97..122 *)
(*   E-acute=201 e-acute=233, U+0301 (combining acute)=769                 *)
(* JavaScript numbers are integers plus the three encoded values Infinity, *)
(* NegInfinity and NaN, with the arithmetic of IEEE doubles on them.       *)
(***************************************************************************)
EXTENDS Integers, Sequences, FiniteSets, TLC

VARIABLES
    variant,          \* which of the three page implementations runs
    data,             \* the JSON document's "transactions" array (static file)
    isHydrated,       \* useState(false)
    transactions,     \* useState<Transaction[]>([])
    newTransactions,  \* useState<Transaction[]>([])      (debounced only)
    isLoading,        \* useState(false)                  (debounced only)
    currentPage,      \* useState(1)
    itemsPerPage,     \* useState(10)
    searchTerm,       \* useState("")
    sortConfig,       \* useState(null)
    goToPage,         \* useState<number | "">("")  "" is <<>>, n is <<n>>
    inflight,         \* fetches issued and not yet settled, each its search
    timers,           \* pending lodash debounce timers, each its last value
    live,             \* the newest timer belongs to the current render's handleSearch
    arg,              \* input of the pure-function specifications
    out               \* their result, <<>> before the function is applied

uiVars    == <<isHydrated, transactions, currentPage, itemsPerPage, searchTerm,
               sortConfig, goToPage>>
fetchVars == <<newTransactions, isLoading, inflight, timers, live>>
pureVars  == <<arg, out>>
vars      == <<variant, data, uiVars, fetchVars, pureVars>>

(* ---------------------------- bounds ---------------------------------- *)
MaxRecords  == 12   \* size of the largest dataset
MaxInflight == 2    \* fetches in flight at once
MaxTimers   == 1    \* debounce timers pending at once
MaxStrLen   == 3    \* length of the strings given to parseAmount
MaxSortLen  == 3    \* length of the lists given to the sort alone
MaxPage     == 8    \* largest finite page number the run walks to
SortPool    == 6    \* records the lists given to the sort alone draw from

(* ---------------------- JavaScript numbers ---------------------------- *)
Infinity    == 1000000
NegInfinity == -1000000
NaN         == 2000000

IsFinite(x) == x # Infinity /\ x # NegInfinity /\ x # NaN

JsNeg(x) == IF x = NaN THEN NaN
            ELSE IF x = Infinity THEN NegInfinity
            ELSE IF x = NegInfinity THEN Infinity
            ELSE -x

JsAdd(x, y) ==
    IF x = NaN \/ y = NaN THEN NaN
    ELSE IF IsFinite(x) /\ IsFinite(y) THEN x + y
    ELSE IF IsFinite(x) THEN y
    ELSE IF IsFinite(y) THEN x
    ELSE IF x = y THEN x
    ELSE NaN

JsSub(x, y) == JsAdd(x, JsNeg(y))

JsSign(x) == IF x = Infinity THEN 1 ELSE IF x = NegInfinity THEN -1
             ELSE IF x > 0 THEN 1 ELSE IF x < 0 THEN -1 ELSE 0

JsMul(x, y) ==
    IF x = NaN \/ y = NaN THEN NaN
    ELSE IF IsFinite(x) /\ IsFinite(y) THEN x * y
    ELSE IF JsSign(x) * JsSign(y) = 0 THEN NaN
    ELSE IF JsSign(x) * JsSign(y) > 0 THEN Infinity
    ELSE NegInfinity

\* x < y of JavaScript: false as soon as one side is NaN.
JsLt(x, y) ==
    IF x = NaN \/ y = NaN THEN FALSE
    ELSE IF x = y THEN FALSE
    ELSE IF x = NegInfinity \/ y = Infinity THEN TRUE
    ELSE IF x = Infinity \/ y = NegInfinity THEN FALSE
    ELSE x < y

JsLe(x, y) == IF x = NaN \/ y = NaN THEN FALSE ELSE x = y \/ JsLt(x, y)

MathMax(x, y) == IF x = NaN \/ y = NaN THEN NaN ELSE IF JsLt(x, y) THEN y ELSE x
MathMin(x, y) == IF x = NaN \/ y = NaN THEN NaN ELSE IF JsLt(y, x) THEN y ELSE x

\* CeilDiv with the quotient rounded down instead of up.
CeilDiv_floor(n, p) ==
    IF p > 0 THEN n \div p
    ELSE IF p < 0 THEN -(n \div (-p))
    ELSE IF n = 0 THEN NaN
    ELSE Infinity

\* Math.ceil(n / p) for a length n >= 0 and an integer p.
CeilDiv(n, p) ==
    IF p > 0 THEN (n + p - 1) \div p
    ELSE IF p < 0 THEN -(n \div (-p))
    ELSE IF n = 0 THEN NaN
    ELSE Infinity

\* ToIntegerOrInfinity of a relative index, then Array.prototype.slice's clamping.
RelIndex(k, len) ==
    IF k = NaN THEN 0
    ELSE IF k = NegInfinity THEN 0
    ELSE IF k = Infinity THEN len
    ELSE IF k < 0 THEN (IF len + k < 0 THEN 0 ELSE len + k)
    ELSE IF k > len THEN len ELSE k

\* Array.prototype.slice(start, end)
Slice(s, start, end) ==
    LET from == RelIndex(start, Len(s))
        to   == RelIndex(end, Len(s))
    IN  IF from >= to THEN <<>> ELSE SubSeq(s, from + 1, to)

(* --------------------------- strings ---------------------------------- *)
\* String.prototype.toLowerCase on one code unit (Basic Latin and Latin-1).
LowerUnit(c) ==
    IF c \in 65..90 THEN c + 32
    ELSE IF c \in 192..222 /\ c # 215 THEN c + 32
    ELSE c

toLowerCase(s) == [i \in 1..Len(s) |-> LowerUnit(s[i])]

\* Canonical decomposition of one code unit: the acute-accented letters of
\* the model's alphabet split into base letter and U+0301.
DecomposeUnit(c) ==
    IF c = 233 THEN <<101, 769>>
    ELSE IF c = 201 THEN <<69, 769>>
    ELSE <<c>>

RECURSIVE normalizeNFD(_)
normalizeNFD(s) ==
    IF s = <<>> THEN <<>> ELSE DecomposeUnit(Head(s)) \o normalizeNFD(Tail(s))

\* .replace(/[U+0300-U+036F]/g, ''): the combining diacritical marks go
StripMarks(s) == SelectSeq(s, LAMBDA c : ~(c \in 768..879))

normalizeString(str) == toLowerCase(StripMarks(normalizeNFD(str)))

\* Whether `needle` stands at position i of `hay`, unit by unit.
RECURSIVE MatchAt(_, _, _, _)
MatchAt(hay, needle, i, j) ==
    IF j > Len(needle) THEN TRUE
    ELSE IF i + j - 1 > Len(hay) THEN FALSE
    ELSE IF hay[i + j - 1] # needle[j] THEN FALSE
    ELSE MatchAt(hay, needle, i, j + 1)

\* String.prototype.includes: scan the start positions left to right.
RECURSIVE IncludesFrom(_, _, _)
IncludesFrom(hay, needle, i) ==
    IF i + Len(needle) - 1 > Len(hay) THEN FALSE
    ELSE IF MatchAt(hay, needle, i, 1) THEN TRUE
    ELSE IncludesFrom(hay, needle, i + 1)

includes(hay, needle) == IncludesFrom(hay, needle, 1)

\* a < b on strings: the first differing code unit decides, a proper prefix is less.
RECURSIVE StrLess(_, _)
StrLess(a, b) ==
    IF b = <<>> THEN FALSE
    ELSE IF a = <<>> THEN TRUE
    ELSE IF Head(a) # Head(b) THEN Head(a) < Head(b)
    ELSE StrLess(Tail(a), Tail(b))

(* -------------------------- parseAmount ------------------------------- *)
IsDigit(c) == c \in 48..57

\* cleanedAmount with the regular expression /[.]/g: the commas stay.
cleanedAmount_dotsOnly(amountStr) == SelectSeq(amountStr, LAMBDA c : c # 46)

\* amountStr.replace(/[,.]/g, "")
cleanedAmount(amountStr) == SelectSeq(amountStr, LAMBDA c : c # 44 /\ c # 46)

\* The value of the longest run of digits at the front of s, read left to
\* right; <<>> when s does not start with a digit.
RECURSIVE DigitPrefix(_, _, _)
DigitPrefix(s, acc, seen) ==
    IF s # <<>> /\ IsDigit(Head(s))
    THEN DigitPrefix(Tail(s), acc * 10 + (Head(s) - 48), TRUE)
    ELSE IF seen THEN <<acc>> ELSE <<>>

\* parseFloat on the model's alphabet (digits, '-', '+', letters that open no
\* numeric literal): an optional sign, then the longest run of digits; NaN
\* when no digit follows. (-0 is 0 here: the two are equal and both falsy.)
parseFloat(s) ==
    LET signed == s # <<>> /\ Head(s) \in {43, 45}
        body   == IF signed THEN Tail(s) ELSE s
        digits == DigitPrefix(body, 0, FALSE)
    IN  IF digits = <<>> THEN NaN
        ELSE IF signed /\ Head(s) = 45 THEN -digits[1]
        ELSE digits[1]

\* parseFloat(cleanedAmount) || 0
parseAmount(amountStr) ==
    LET n == parseFloat(cleanedAmount(amountStr))
    IN  IF n = NaN \/ n = 0 THEN 0 ELSE n

(* ----------------------- records and datasets ------------------------- *)
Fields == {"date", "amount", "details", "transaction_code"}

\* Five kinds of record; the transaction code ends in the record's number.
\*   1: 03 | 1.200 | abcd | T..      2: 01 | 1200 | e    | T..
\*   3: 02 | 2,5   | b(e-acute)1 | T..   4: 01 | a | dd  | abc..
\*   5: 04 | 300   | xABC | T..
Template == <<
    [date |-> <<48, 51>>, amount |-> <<49, 46, 50, 48, 48>>,
     details |-> <<97, 98, 99, 100>>, transaction_code |-> <<84>>],
    [date |-> <<48, 49>>, amount |-> <<49, 50, 48, 48>>,
     details |-> <<101>>, transaction_code |-> <<84>>],
    [date |-> <<48, 50>>, amount |-> <<50, 44, 53>>,
     details |-> <<98, 233, 49>>, transaction_code |-> <<84>>],
    [date |-> <<48, 49>>, amount |-> <<97>>,
     details |-> <<100, 100>>, transaction_code |-> <<97, 98, 99>>],
    [date |-> <<48, 52>>, amount |-> <<51, 48, 48>>,
     details |-> <<120, 65, 66, 67>>, transaction_code |-> <<84>> ] >>

Rec(i) ==
    LET t == Template[((i - 1) % Len(Template)) + 1]
    IN  [t EXCEPT !.transaction_code =
            @ \o <<48 + ((i \div 10) % 10), 48 + (i % 10)>>]

\* A list of records is a list of references; a reference is the record's
\* position in the JSON document, and Record gives the object it points to.
RecordTable == [i \in 1..MaxRecords |-> Rec(i)]
Record(ref) == RecordTable[ref]

Dataset(n) == [i \in 1..n |-> i]

DataSizes == {0, 3, MaxRecords}

\* What the user types in the search box: "", "b", "ABC", "BE1", "zzz".
SearchInputs == {<<>>, <<98>>, <<65, 66, 67>>, <<66, 69, 49>>, <<122, 122, 122>>}

\* What the user types in the debounced page's search box: "b", "BE1", "zzz".
DebouncedInputs == {<<98>>, <<66, 69, 49>>, <<122, 122, 122>>}

\* What the user types in the page-size box (Number(e.target.value)); the
\* box's min=1 does not stop a typed 0 or -1, and clearing it gives 0.
PerPageInputs == {-1, 0, 2, 5, 10}

\* What the user types in the go-to-page box.
GoToInputs == {0, 2, 3, 7}

Variants == {"page", "part_001", "debounced"}

SortKeys == IF variant = "part_001" THEN Fields
            ELSE {"date", "amount", "details"}

NoSort == [key |-> "null", direction |-> "null"]

(* ------------------------------ sort ---------------------------------- *)
\* compare with the descending amount branch a copy of the ascending one.
compare_sameBothWays(refA, refB, cfg) ==
    LET a == Record(refA)
        b == Record(refB)
    IN  IF cfg # NoSort
        THEN IF cfg.key = "amount"
             THEN JsSub(parseAmount(a.amount), parseAmount(b.amount))
             ELSE IF StrLess(a[cfg.key], b[cfg.key])
                  THEN (IF cfg.direction = "ascending" THEN -1 ELSE 1)
                  ELSE IF StrLess(b[cfg.key], a[cfg.key])
                  THEN (IF cfg.direction = "ascending" THEN 1 ELSE -1)
                  ELSE 0
        ELSE 0

\* The comparator given to Array.prototype.sort.
compare(refA, refB, cfg) ==
    LET a == Record(refA)
        b == Record(refB)
    IN
    IF cfg # NoSort
    THEN IF cfg.key = "amount"
         THEN IF cfg.direction = "ascending"
              THEN JsSub(parseAmount(a.amount), parseAmount(b.amount))
              ELSE JsSub(parseAmount(b.amount), parseAmount(a.amount))
         ELSE IF StrLess(a[cfg.key], b[cfg.key])
              THEN (IF cfg.direction = "ascending" THEN -1 ELSE 1)
              ELSE IF StrLess(b[cfg.key], a[cfg.key])
              THEN (IF cfg.direction = "ascending" THEN 1 ELSE -1)
              ELSE 0
    ELSE 0

\* x put into the sorted s before the first element that compares greater.
RECURSIVE InsertSorted(_, _, _)
InsertSorted(x, s, cfg) ==
    IF s = <<>> THEN <<x>>
    ELSE IF compare(Head(s), x, cfg) > 0 THEN <<x>> \o s
    ELSE <<Head(s)>> \o InsertSorted(x, Tail(s), cfg)

\* Array.prototype.sort is stable: a left-to-right insertion sort gives its result.
RECURSIVE SortFrom(_, _, _, _)
SortFrom(s, i, acc, cfg) ==
    IF i > Len(s) THEN acc
    ELSE SortFrom(s, i + 1, InsertSorted(s[i], acc, cfg), cfg)

SortWith(s, cfg) == SortFrom(s, 1, <<>>, cfg)


(* ----------------------------- filter --------------------------------- *)
\* PassesSearch with the length test off by one: a 3-character search shows all.
PassesSearch_offByOne(t, term) ==
    IF Len(term) <= 3 THEN TRUE
    ELSE \E f \in Fields : includes(toLowerCase(t[f]), toLowerCase(term))

\* The predicate of filteredTransactions (the non-debounced pages).
PassesSearch(t, term) ==
    IF Len(term) < 3 THEN TRUE
    ELSE \E f \in Fields : includes(toLowerCase(t[f]), toLowerCase(term))

\* The predicate of fetchData's filter (the debounced page).
MatchesNormalized(t, search) ==
    \E f \in Fields : includes(normalizeString(t[f]), normalizeString(search))

FilterData(d, search) == SelectSeq(d, LAMBDA ref : MatchesNormalized(Record(ref), search))

FilterSorted(sorted, term) == SelectSeq(sorted, LAMBDA ref : PassesSearch(Record(ref), term))

(* The render's derived lists are functions of (transactions, sortConfig,  *)
(* searchTerm) alone; they are tabulated once over the values those state  *)
(* variables can take, so that a state reads them instead of sorting anew. *)
Datasets    == {Dataset(n) : n \in DataSizes}
SortConfigs == {NoSort} \cup {[key |-> k, direction |-> d] :
                                 k \in Fields, d \in {"ascending", "descending"}}
Lists       == {<<>>} \cup Datasets
                 \cup {FilterData(d, search) : d \in Datasets, search \in SearchInputs}

SortedTable   == [list \in Lists, cfg \in SortConfigs |-> SortWith(list, cfg)]
FilteredTable == [list \in Lists, cfg \in SortConfigs, term \in SearchInputs |->
                     FilterSorted(SortedTable[list, cfg], term)]
FetchTable    == [d \in Datasets, search \in SearchInputs |-> FilterData(d, search)]

sortedTransactions   == SortedTable[transactions, sortConfig]
filteredTransactions == FilteredTable[transactions, sortConfig, searchTerm]
filteredData(search) == FetchTable[data, search]

\* The list the pagination reads: filteredTransactions, and in the
\* debounced page sortedTransactions itself.
pagedList == IF variant = "debounced" THEN sortedTransactions
             ELSE filteredTransactions

(* --------------------------- pagination ------------------------------- *)
maxPageDisplay == 5

\* indexOfFirstItem one record late.
indexOfFirstItem_offByOne(page, perPage) ==
    JsAdd(JsSub(JsMul(page, perPage), perPage), 1)

\* The slice bounds of a page, as the render computes them for currentPage.
indexOfLastItem(page, perPage)  == JsMul(page, perPage)
indexOfFirstItem(page, perPage) == JsSub(indexOfLastItem(page, perPage), perPage)

PageSlice(list, page, perPage) ==
    Slice(list, indexOfFirstItem(page, perPage), indexOfLastItem(page, perPage))

currentTransactions == PageSlice(pagedList, currentPage, itemsPerPage)

totalPages == CeilDiv(Len(pagedList), itemsPerPage)
startPage  == MathMax(1, JsSub(currentPage, maxPageDisplay \div 2))

\* endPage without the "- 1": a window one button too wide.
endPage_offByOne == MathMin(totalPages, JsAdd(startPage, maxPageDisplay))

endPage    == MathMin(totalPages, JsSub(JsAdd(startPage, maxPageDisplay), 1))

\* Array.from({ length: endPage - startPage + 1 }): NaN and negative lengths give no element.
buttonCount ==
    LET length == JsAdd(JsSub(endPage, startPage), 1)
    IN  IF length = NaN \/ JsLt(length, 0) THEN 0 ELSE length

\* The page numbers on the numbered buttons.
pageButtons == {JsAdd(startPage, index) : index \in 0..(buttonCount - 1)}

(* ------------------------------ Init ---------------------------------- *)
Init ==
    /\ variant \in Variants
    /\ data \in Datasets
    /\ isHydrated = FALSE
    /\ transactions = <<>>
    /\ newTransactions = <<>>
    /\ isLoading = FALSE
    /\ currentPage = 1
    /\ itemsPerPage = 10
    /\ searchTerm = <<>>
    /\ sortConfig = NoSort
    /\ goToPage = <<>>
    /\ inflight = <<>>
    /\ timers = <<>>
    /\ live = FALSE
    /\ arg = <<>>
    /\ out = <<>>

RemoveAt(s, i) == SubSeq(s, 1, i - 1) \o SubSeq(s, i + 1, Len(s))

\* The effect on [isLoading, newTransactions], run after the render that
\* follows a change of either: the pending list replaces the shown one
\* only when loading is over and the pending list is not empty.
SyncEffect(loading, pending, shown) ==
    IF ~loading /\ Len(pending) > 0 THEN pending ELSE shown

(* --------------------------- mount, fetch ----------------------------- *)
\* The mount effect: hydrate and issue the initial fetch.
Mount ==
    /\ ~isHydrated
    /\ isHydrated' = TRUE
    /\ inflight' = <<<<>>>>
    /\ isLoading' = (variant = "debounced")
    /\ UNCHANGED <<variant, data, transactions, currentPage, itemsPerPage,
                   searchTerm, sortConfig, goToPage, newTransactions, timers,
                   live, pureVars>>

\* Non-debounced pages: .then((data) => setTransactions(data.transactions))
LoadResolve ==
    /\ variant # "debounced"
    /\ inflight # <<>>
    /\ transactions' = data
    /\ inflight' = Tail(inflight)
    /\ UNCHANGED <<variant, data, isHydrated, currentPage, itemsPerPage,
                   searchTerm, sortConfig, goToPage, newTransactions,
                   isLoading, timers, live, pureVars>>

\* Non-debounced pages: the promise rejects and nothing handles it.
LoadReject ==
    /\ variant # "debounced"
    /\ inflight # <<>>
    /\ inflight' = Tail(inflight)
    /\ UNCHANGED <<variant, data, uiVars, newTransactions, isLoading, timers,
                   live, pureVars>>

\* A response handler that drops every response but that of the newest
\* fetch in flight.
FetchDataResolve_newestOnly(i) ==
    /\ variant = "debounced"
    /\ i \in 1..Len(inflight)
    /\ newTransactions' = IF i = Len(inflight)
                          THEN filteredData(inflight[i])
                          ELSE newTransactions
    /\ isLoading' = FALSE
    /\ transactions' = SyncEffect(FALSE, newTransactions', transactions)
    /\ inflight' = RemoveAt(inflight, i)
    /\ live' = FALSE
    /\ UNCHANGED <<variant, data, isHydrated, currentPage, itemsPerPage,
                   searchTerm, sortConfig, goToPage, timers, pureVars>>

\* Debounced page: the i-th fetch in flight resolves; try-body, finally,
\* then the effect on [isLoading, newTransactions].
FetchDataResolve(i) ==
    /\ variant = "debounced"
    /\ i \in 1..Len(inflight)
    /\ newTransactions' = filteredData(inflight[i])
    /\ isLoading' = FALSE
    /\ transactions' = SyncEffect(FALSE, newTransactions', transactions)
    /\ inflight' = RemoveAt(inflight, i)
    /\ live' = FALSE
    /\ UNCHANGED <<variant, data, isHydrated, currentPage, itemsPerPage,
                   searchTerm, sortConfig, goToPage, timers, pureVars>>

\* A failure path whose catch is not followed by a finally: the loading
\* flag keeps its value.
FetchDataReject_noFinally(i) ==
    /\ variant = "debounced"
    /\ i \in 1..Len(inflight)
    /\ inflight' = RemoveAt(inflight, i)
    /\ UNCHANGED <<variant, data, uiVars, newTransactions, isLoading, timers,
                   live, pureVars>>

\* Debounced page: the i-th fetch in flight fails; catch, finally, and the
\* effect if isLoading changed.
FetchDataReject(i) ==
    /\ variant = "debounced"
    /\ i \in 1..Len(inflight)
    /\ isLoading' = FALSE
    /\ transactions' = IF isLoading
                       THEN SyncEffect(FALSE, newTransactions, transactions)
                       ELSE transactions
    /\ inflight' = RemoveAt(inflight, i)
    /\ live' = IF isLoading THEN FALSE ELSE live
    /\ UNCHANGED <<variant, data, isHydrated, currentPage, itemsPerPage,
                   searchTerm, sortConfig, goToPage, newTransactions, timers,
                   pureVars>>

(* ------------------------------ search -------------------------------- *)
\* Non-debounced pages: onChange={(e) => setSearchTerm(e.target.value)}
SearchChange(value) ==
    /\ variant # "debounced"
    /\ isHydrated
    /\ value # searchTerm
    /\ searchTerm' = value
    /\ UNCHANGED <<variant, data, isHydrated, transactions, currentPage,
                   itemsPerPage, sortConfig, goToPage, fetchVars, pureVars>>

\* Debounced page: onChange calls the render's debounced handleSearch, which
\* (re)starts its timer with the value; a handleSearch of an earlier render
\* keeps its own timer.
SearchInput(value) ==
    /\ variant = "debounced"
    /\ isHydrated
    /\ IF live
       THEN timers' = [timers EXCEPT ![Len(timers)] = value]
       ELSE /\ Len(timers) < MaxTimers
            /\ timers' = Append(timers, value)
    /\ live' = TRUE
    /\ UNCHANGED <<variant, data, uiVars, newTransactions, isLoading,
                   inflight, pureVars>>

\* Debounced page: the oldest timer expires and handleSearch's body runs:
\* setSearchTerm(value); fetchData(value) up to its first await;
\* setCurrentPage(1).
DebounceFire ==
    /\ variant = "debounced"
    /\ timers # <<>>
    /\ Len(inflight) < MaxInflight
    /\ searchTerm' = Head(timers)
    /\ isLoading' = TRUE
    /\ inflight' = Append(inflight, Head(timers))
    /\ currentPage' = 1
    /\ timers' = Tail(timers)
    /\ live' = IF searchTerm' # searchTerm \/ ~isLoading \/ currentPage # 1
               THEN FALSE
               ELSE live /\ Len(timers) > 1
    /\ UNCHANGED <<variant, data, isHydrated, transactions, itemsPerPage,
                   sortConfig, goToPage, newTransactions, pureVars>>

\* handleSort that never flips to descending.
handleSort_neverToggles(key) ==
    /\ isHydrated
    /\ key \in SortKeys
    /\ sortConfig' = [key |-> key, direction |-> "ascending"]
    /\ live' = FALSE
    /\ UNCHANGED <<variant, data, isHydrated, transactions, currentPage,
                   itemsPerPage, searchTerm, goToPage, newTransactions,
                   isLoading, inflight, timers, pureVars>>

(* ------------------------------- sort --------------------------------- *)
handleSort(key) ==
    /\ isHydrated
    /\ key \in SortKeys
    /\ sortConfig' =
          [key |-> key,
           direction |-> IF sortConfig # NoSort /\ sortConfig.key = key
                            /\ sortConfig.direction = "ascending"
                         THEN "descending" ELSE "ascending"]
    /\ live' = FALSE
    /\ UNCHANGED <<variant, data, isHydrated, transactions, currentPage,
                   itemsPerPage, searchTerm, goToPage, newTransactions,
                   isLoading, inflight, timers, pureVars>>

(* ---------------------------- pagination ------------------------------ *)
paginate(pageNumber) ==
    /\ IsFinite(pageNumber) => pageNumber <= MaxPage
    /\ currentPage' = pageNumber
    /\ live' = IF pageNumber # currentPage THEN FALSE ELSE live
    /\ UNCHANGED <<variant, data, isHydrated, transactions, itemsPerPage,
                   searchTerm, sortConfig, goToPage, newTransactions,
                   isLoading, inflight, timers, pureVars>>

\* {currentPage > 1 && <button onClick={() => paginate(1)}>First</button>}
ClickFirst ==
    /\ isHydrated
    /\ JsLt(1, currentPage)
    /\ paginate(1)

\* One of the numbered buttons startPage .. endPage.
ClickPage ==
    /\ isHydrated
    /\ \E index \in 0..(buttonCount - 1) : paginate(JsAdd(startPage, index))

\* {currentPage < totalPages && <button onClick={() => paginate(totalPages)}>Last</button>}
ClickLast ==
    /\ isHydrated
    /\ JsLt(currentPage, totalPages)
    /\ paginate(totalPages)

\* part_001: onChange={(e) => setItemsPerPage(Number(e.target.value))}
SetItemsPerPage(value) ==
    /\ variant = "part_001"
    /\ isHydrated
    /\ value # itemsPerPage
    /\ itemsPerPage' = value
    /\ UNCHANGED <<variant, data, isHydrated, transactions, currentPage,
                   searchTerm, sortConfig, goToPage, fetchVars, pureVars>>

\* part_001: onChange={(e) => setGoToPage(Number(e.target.value))}
SetGoToPage(value) ==
    /\ variant = "part_001"
    /\ isHydrated
    /\ goToPage # <<value>>
    /\ goToPage' = <<value>>
    /\ UNCHANGED <<variant, data, isHydrated, transactions, currentPage,
                   itemsPerPage, searchTerm, sortConfig, fetchVars, pureVars>>

\* part_001: the go-to-page button; outside 1..totalPages the click does nothing.
handleGoToPage ==
    /\ variant = "part_001"
    /\ isHydrated
    /\ goToPage # <<>>
    /\ goToPage[1] >= 1
    /\ JsLe(goToPage[1], totalPages)
    /\ currentPage' = goToPage[1]
    /\ goToPage' = <<>>
    /\ UNCHANGED <<variant, data, isHydrated, transactions, itemsPerPage,
                   searchTerm, sortConfig, fetchVars, pureVars>>

Next ==
    \/ Mount
    \/ LoadResolve
    \/ LoadReject
    \/ \E i \in 1..MaxInflight : FetchDataResolve(i)
    \/ \E i \in 1..MaxInflight : FetchDataReject(i)
    \/ \E value \in SearchInputs : SearchChange(value)
    \/ \E value \in DebouncedInputs : SearchInput(value)
    \/ DebounceFire
    \/ \E key \in Fields : handleSort(key)
    \/ ClickFirst
    \/ ClickPage
    \/ ClickLast
    \/ \E value \in PerPageInputs : SetItemsPerPage(value)
    \/ \E value \in GoToInputs : SetGoToPage(value)
    \/ handleGoToPage

Spec == Init /\ [][Next]_vars

\* The same program when no request fails: every fetch that settles settles
\* through its success path.
NextNoFail ==
    \/ Mount
    \/ LoadResolve
    \/ \E i \in 1..MaxInflight : FetchDataResolve(i)
    \/ \E value \in SearchInputs : SearchChange(value)
    \/ \E value \in DebouncedInputs : SearchInput(value)
    \/ DebounceFire
    \/ \E key \in Fields : handleSort(key)
    \/ ClickFirst
    \/ ClickPage
    \/ ClickLast
    \/ \E value \in PerPageInputs : SetItemsPerPage(value)
    \/ \E value \in GoToInputs : SetGoToPage(value)
    \/ handleGoToPage

SpecNoFail == Init /\ [][NextNoFail]_vars

(* ------------------ the pure functions on their own -------------------- *)
BoundedSeq(S, n) == UNION {[1..k -> S] : k \in 0..n}

\* The page as constructed, nothing mounted.
Idle ==
    /\ variant = "page"
    /\ data = <<>>
    /\ isHydrated = FALSE
    /\ transactions = <<>>
    /\ newTransactions = <<>>
    /\ isLoading = FALSE
    /\ currentPage = 1
    /\ itemsPerPage = 10
    /\ searchTerm = <<>>
    /\ sortConfig = NoSort
    /\ goToPage = <<>>
    /\ inflight = <<>>
    /\ timers = <<>>
    /\ live = FALSE

\* Amount strings over '0' '1' '2' ',' '.' '-' 'a'.
AmountAlphabet == {48, 49, 50, 44, 46, 45, 97}

InitParse == Idle /\ arg \in BoundedSeq(AmountAlphabet, MaxStrLen) /\ out = <<>>

ParseApply ==
    /\ out = <<>>
    /\ out' = <<parseAmount(arg)>>
    /\ UNCHANGED <<variant, data, uiVars, fetchVars, arg>>

NextParse == ParseApply

SpecParse == InitParse /\ [][NextParse]_vars

AmountAscending  == [key |-> "amount", direction |-> "ascending"]
AmountDescending == [key |-> "amount", direction |-> "descending"]

InitSort == Idle /\ arg \in BoundedSeq(1..SortPool, MaxSortLen) /\ out = <<>>

\* The render's sort of one list under the two amount directives.
SortApply ==
    /\ out = <<>>
    /\ out' = <<SortWith(arg, AmountAscending), SortWith(arg, AmountDescending)>>
    /\ UNCHANGED <<variant, data, uiVars, fetchVars, arg>>

NextSort == SortApply

SpecSort == InitSort /\ [][NextSort]_vars

(* ============================== claims ================================= *)
\* s occurs in v as a run of consecutive code units.
HasSubstring(v, s) ==
    \E i \in 0..(Len(v) - Len(s)) : SubSeq(v, i + 1, i + Len(s)) = s

Range(seq) == {seq[i] : i \in 1..Len(seq)}

Reverse(seq) == [i \in 1..Len(seq) |-> seq[Len(seq) + 1 - i]]

\* The smallest t with t * p >= n, for p >= 1.
CeilOf(n, p) == CHOOSE t \in 0..n : t * p >= n /\ (t = 0 \/ (t - 1) * p < n)

(* ---- C1 ---- *)
LowerMatch(ref, term) ==
    \E f \in Fields : HasSubstring(toLowerCase(Record(ref)[f]), toLowerCase(term))

\* C1: in the non-debounced pages, for a search string of 3 or more
\* characters the filtered list holds exactly the loaded records that have a
\* field whose lower-cased value contains the lower-cased search string:
\* every record in it matches, no matching record is missing, none is repeated.
C1_FilterExact ==
    (variant # "debounced" /\ Len(searchTerm) >= 3) =>
        /\ Range(filteredTransactions) =
              {ref \in Range(transactions) : LowerMatch(ref, searchTerm)}
        /\ Len(filteredTransactions) = Cardinality(Range(filteredTransactions))

C1_Witness ==
    /\ variant # "debounced"
    /\ Len(searchTerm) >= 3
    /\ sortConfig # NoSort
    /\ filteredTransactions # <<>>
    /\ Len(filteredTransactions) < Len(transactions)

(* ---- C2 ---- *)
\* C2: in every variant, while the search string has fewer than 3 characters
\* (and, in the debounced page, a dataset has been loaded and no fetch is in
\* flight) the list shown across the pages is the full loaded dataset in the
\* current sort order.
C2_ShortSearchShowsAll ==
    (isHydrated /\ Len(searchTerm) < 3) =>
        IF variant = "debounced"
        THEN (inflight = <<>> /\ transactions # <<>>) =>
                 pagedList = SortWith(data, sortConfig)
        ELSE pagedList = SortWith(transactions, sortConfig)

(* ---- C3 ---- *)
\* C3: in every variant, a step that changes the search term to a string of
\* 3 or more characters leaves the current page at 1.
C3_SearchResetsPage ==
    [][(searchTerm' # searchTerm /\ Len(searchTerm') >= 3) => currentPage' = 1]_vars

(* ---- C4 ---- *)
\* C4: in every reachable state (with a page size of at least 1) the current
\* page N satisfies 1 <= N <= max(1, totalPages).
C4_PageInRange ==
    (isHydrated /\ itemsPerPage >= 1) =>
        /\ JsLe(1, currentPage)
        /\ JsLe(currentPage, MathMax(1, totalPages))

(* ---- C5 ---- *)
RECURSIVE ConcatPages(_, _, _, _)
ConcatPages(list, from, to, perPage) ==
    IF from > to THEN <<>>
    ELSE PageSlice(list, from, perPage) \o ConcatPages(list, from + 1, to, perPage)

\* C5: for the paged list of n records and a page size P >= 1, page N of
\* 1..ceil(n/P) is the records at positions (N-1)*P up to but excluding N*P:
\* P records on every page before the last, n - (ceil(n/P)-1)*P on the last,
\* and the pages in order make up the list again.
C5_PagesPartition ==
    (isHydrated /\ itemsPerPage >= 1) =>
        LET list  == pagedList
            n     == Len(list)
            P     == itemsPerPage
            pages == CeilOf(n, P)
        IN  /\ \A N \in 1..pages :
                  LET size == IF N < pages THEN P ELSE n - (pages - 1) * P
                  IN  PageSlice(list, N, P) =
                          [k \in 1..size |-> list[(N - 1) * P + k]]
            /\ ConcatPages(list, 1, pages, P) = list
            /\ IsFinite(currentPage) /\ currentPage \in 1..pages =>
                  currentTransactions = PageSlice(list, currentPage, P)

C5_Witness ==
    /\ isHydrated
    /\ itemsPerPage = 5
    /\ Len(pagedList) = 12
    /\ currentPage = 3
    /\ Len(currentTransactions) = 2

(* ---- C6 ---- *)
\* C6 as stated: the total page count is ceil(filteredCount / P) and the
\* pagination control always shows at least one page-number button, also
\* when the filtered list is empty.
C6_AlwaysAPageButton ==
    (isHydrated /\ itemsPerPage >= 1) =>
        /\ totalPages = CeilOf(Len(pagedList), itemsPerPage)
        /\ buttonCount >= 1

\* C6 as amended: the total page count is ceil(filteredCount / P) for a page
\* size P >= 1, which is 0 for an empty filtered list; the control shows
\* page-number buttons only for the pages from startPage to
\* min(totalPages, startPage + 4): none when the filtered list is empty, and
\* at least one exactly when max(1, currentPage - 2) <= totalPages.
C6_PageCountAndButtons ==
    (isHydrated /\ itemsPerPage >= 1) =>
        /\ totalPages = CeilOf(Len(pagedList), itemsPerPage)
        /\ Len(pagedList) = 0 => (totalPages = 0 /\ buttonCount = 0)
        /\ buttonCount >= 1 <=>
              JsLe(MathMax(1, JsSub(currentPage, 2)), totalPages)
        /\ \A b \in pageButtons : JsLe(1, b) /\ JsLe(b, totalPages)

C6_Witness ==
    /\ isHydrated
    /\ itemsPerPage >= 1
    /\ transactions # <<>>
    /\ Len(pagedList) = 0
    /\ buttonCount = 0

(* ---- C7 ---- *)
AmountsDistinct(list) ==
    \A i, j \in 1..Len(list) :
        i # j => parseAmount(Record(list[i]).amount) # parseAmount(Record(list[j]).amount)

\* C7: for a list whose amounts parse to pairwise distinct numbers, the order
\* given by the descending amount sort is the reverse of the order given by
\* the ascending amount sort.
C7_DescendingIsReverse ==
    (out # <<>> /\ AmountsDistinct(arg)) => out[2] = Reverse(out[1])

C7_Witness ==
    /\ out # <<>>
    /\ Len(arg) = 3
    /\ AmountsDistinct(arg)
    /\ out[1] # arg
    /\ out[2] # arg

(* ---- C8 ---- *)
RECURSIVE DecimalValue(_)
DecimalValue(d) ==
    IF d = <<>> THEN 0
    ELSE DecimalValue(SubSeq(d, 1, Len(d) - 1)) * 10 + (d[Len(d)] - 48)

Stripped(str) == SelectSeq(str, LAMBDA c : c \notin {44, 46})

AllDigits(str) == \A i \in 1..Len(str) : str[i] \in 48..57

\* C8 as stated: parseAmount strips '.' and ',' and returns the integer the
\* remaining digits write; whenever a non-digit is left after the stripping
\* it returns 0.
C8_ResidueYieldsZero ==
    out # <<>> =>
        LET c == Stripped(arg)
        IN  /\ (c # <<>> /\ AllDigits(c)) => out[1] = DecimalValue(c)
            /\ ~AllDigits(c) => out[1] = 0

\* C8 as amended: parseAmount strips '.' and ',' and returns the number that
\* parseFloat reads from the front of the rest: the integer written by the
\* leading run of digits (negated after a leading '-'), whatever follows the
\* run, and 0 only when the rest does not begin with a number.
C8_LeadingDigitsDecide ==
    out # <<>> =>
        LET c      == Stripped(arg)
            minus  == c # <<>> /\ c[1] = 45
            body   == IF minus THEN SubSeq(c, 2, Len(c)) ELSE c
            run    == CHOOSE k \in 0..Len(body) :
                          /\ \A i \in 1..k : body[i] \in 48..57
                          /\ k < Len(body) => body[k + 1] \notin 48..57
            value  == DecimalValue(SubSeq(body, 1, run))
        IN  out[1] = IF run = 0 THEN 0 ELSE IF minus THEN -value ELSE value

C8_Witness ==
    /\ out # <<>>
    /\ arg = <<49, 50, 97>>
    /\ out[1] = 12

(* ---- C9 ---- *)
\* The directive a click on column `key` must leave.
AfterClick(key) ==
    IF sortConfig = [key |-> key, direction |-> "ascending"]
    THEN [key |-> key, direction |-> "descending"]
    ELSE [key |-> key, direction |-> "ascending"]

\* C9: a click on column c leaves the single directive (c, descending) when
\* the directive was (c, ascending) and (c, ascending) in every other case,
\* and changes neither the loaded records nor the search term nor the
\* current page; nothing but a header click changes the directive.
C9_SortClick ==
    [][/\ \A key \in Fields :
              handleSort(key) =>
                  /\ sortConfig' = AfterClick(key)
                  /\ UNCHANGED <<transactions, searchTerm, currentPage>>
       /\ sortConfig' # sortConfig =>
              /\ \E key \in SortKeys : sortConfig' = AfterClick(key)
              /\ UNCHANGED <<transactions, searchTerm, currentPage>>]_vars

C9_Witness ==
    /\ sortConfig = [key |-> "amount", direction |-> "descending"]
    /\ currentPage = 2
    /\ Len(searchTerm) = 1
    /\ transactions # <<>>

(* ---- C10 ---- *)
NormalizedMatch(ref, search) ==
    \E f \in Fields :
        HasSubstring(normalizeString(Record(ref)[f]), normalizeString(search))

\* C10: in the debounced page, when the only fetch in flight resolves, the
\* displayed list becomes exactly the records of the fetched dataset that
\* match its search after normalization, the empty list included.
C10_ResolveShowsMatches ==
    [][\A i \in 1..MaxInflight :
          (FetchDataResolve(i) /\ Len(inflight) = 1) =>
              transactions' =
                  SelectSeq(data, LAMBDA ref : NormalizedMatch(ref, inflight[i]))]_vars

(* ---- C11 ---- *)
\* The records of a dataset with a field that contains the search, both
\* normalized; tabulated once for every dataset and search.
MatchTable ==
    [d \in Datasets, search \in SearchInputs |->
        SelectSeq(d, LAMBDA ref : NormalizedMatch(ref, search))]

Matches(search) == MatchTable[data, search]

\* C11: in the debounced page, whichever fetch in flight resolves, first or
\* last issued, with other fetches still in flight or not, a non-empty
\* result becomes the displayed list and the search term stays that of the
\* last search issued; so the fetch that resolves last decides the list.
C11_LastResolvedWins ==
    [][\A i \in 1..MaxInflight :
          (FetchDataResolve(i) /\ Matches(inflight[i]) # <<>>) =>
              /\ transactions' = Matches(inflight[i])
              /\ newTransactions' = Matches(inflight[i])
              /\ searchTerm' = searchTerm]_vars

\* Both fetches have resolved with non-empty results, the search term is
\* the second search and the list is the result of the first.
C11_Witness ==
    /\ variant = "debounced"
    /\ inflight = <<>>
    /\ timers = <<>>
    /\ ~isLoading
    /\ Matches(searchTerm) # <<>>
    /\ \E s1 \in DebouncedInputs :
           /\ s1 # searchTerm
           /\ Matches(s1) # <<>>
           /\ Matches(s1) # Matches(searchTerm)
           /\ transactions = Matches(s1)

(* ---- C12 ---- *)
\* C12: in the debounced page, when a fetch in flight fails, the displayed
\* list and the pending list keep their values, nothing else that is
\* rendered changes, and the loading flag is false afterwards.
C12_FailedFetchKeepsLists ==
    [][\A i \in 1..MaxInflight :
          FetchDataReject(i) =>
              /\ transactions' = transactions
              /\ newTransactions' = newTransactions
              /\ isLoading' = FALSE
              /\ UNCHANGED <<searchTerm, currentPage, itemsPerPage,
                             sortConfig, goToPage>>]_vars

\* The initial fetch of a non-empty dataset has failed and no search was
\* issued: nothing is displayed, nothing is pending, loading is over.
C12_Witness ==
    /\ variant = "debounced"
    /\ isHydrated
    /\ data # <<>>
    /\ inflight = <<>>
    /\ timers = <<>>
    /\ searchTerm = <<>>
    /\ transactions = <<>>
    /\ newTransactions = <<>>
    /\ ~isLoading

====
